---- MODULE Spec2Model ----
(***************************************************************************)
(* A model of ftrace.c: the record / replay / live commands of the         *)
(* function tracer, the trace file they exchange and the two replay        *)
(* renderers.                                                              *)
(***************************************************************************)
EXTENDS Integers, Sequences, FiniteSets, TLC

(***************************************************************************)
(* Bounds of the model.                                                    *)
(***************************************************************************)
\* longest stream of arbitrary records an input trace file holds
MaxLen == 2
\* most calls in a properly nested trace written by a producer
MaxCalls == 3
\* width, in bits, of the (scaled down) unsigned long time stamps
TimeBits == 5
\* the longest -F / -N argument, in pieces
MaxRaw == 3

(***************************************************************************)
(* Names and small helpers.                                                *)
(***************************************************************************)
NoSym == "nosym"
NullName == "(null)"
FTRACE_FILE_NAME == "ftrace.data"
OldName(name) == "ftrace.data.old"
UserFile == "user.data"
TmpFile == "/tmp/ftrace-live"

Last(s) == s[Len(s)]

\* unsigned long subtraction, end - start, as printed with %lu
TimeWrap == 2 ^ TimeBits
USub(a, b) == (a - b + TimeWrap) % TimeWrap

(***************************************************************************)
(* Symbols: the static table of the traced binary and the dynamic loader.  *)
(***************************************************************************)
Sym(n, a, s) == [name |-> n, addr |-> a, size |-> s]

\* what load_symtab finds in each kind of binary
ExeKinds == {"unreadable", "nopg", "pg"}
UserSyms == {Sym("main", 10, 2), Sym("foo", 20, 2), Sym("bar", 30, 2)}
ExeSymbols(exe) ==
    CASE exe = "pg"   -> UserSyms \cup {Sym("mcount", 60, 0)}
      [] exe = "nopg" -> UserSyms
      [] OTHER        -> {}

\* load_symtab: 0 and the table, or -1 and no table
LoadSymtab(exe) ==
    IF exe = "unreadable"
    THEN [ret |-> -1, tab |-> {}]
    ELSE [ret |-> 0, tab |-> ExeSymbols(exe)]

\* find_symtab: floor lookup, valid only inside the symbol's size
FindSymtab(tab, addr) ==
    LET below == {s \in tab : s.addr <= addr}
    IN  IF below = {} THEN NoSym
        ELSE LET fl == CHOOSE s \in below : \A t \in below : t.addr <= s.addr
             IN  IF addr < fl.addr + fl.size \/ addr = fl.addr
                 THEN fl.name ELSE NoSym

\* find_symname: exact name
FindSymname(tab, name) ==
    IF \E s \in tab : s.name = name THEN name ELSE NoSym

\* dladdr(addr).dli_sname of the tracer's own process: NULL on a miss
DlAddr(addr) ==
    CASE addr = 40 -> "puts"
      [] addr = 41 -> "__libc_start_main"
      [] OTHER     -> NoSym

(***************************************************************************)
(* Trace records and trace files.                                          *)
(***************************************************************************)
Rec(t, d, p, c, s, e) ==
    [tid |-> t, depth |-> d, parent_ip |-> p, child_ip |-> c,
     start_time |-> s, end_time |-> e]

\* the records an arbitrary input file is made of
Records ==
    {Rec(t, d, 50, 40, s, e) :
        t \in {1, 2}, d \in {0, 1}, s \in {1, 3}, e \in {0, 2}}

Streams == UNION {[1..n -> Records] : n \in 0..MaxLen}

\* A file: how much of the header is there (0 nothing, 1 the magic only,
\* 2 all of it), whether magic and version are the expected ones, the whole
\* records after the header, and whether bytes of an incomplete record trail.
File(h, m, v, r, f) ==
    [exists |-> TRUE, hdrlen |-> h, magic_ok |-> m, version_ok |-> v,
     recs |-> r, frag |-> f]
\* no file under that name
NoFile ==
    [exists |-> FALSE, hdrlen |-> 0, magic_ok |-> FALSE, version_ok |-> FALSE,
     recs |-> <<>>, frag |-> FALSE]
\* what mkstemp creates
EmptyFile == File(0, FALSE, FALSE, <<>>, FALSE)
\* the record buffer before the first fread
NoRec == Rec(0, 0, 0, 0, 0, 0)

\* Properly nested traces of one thread, as the probe runtime appends them:
\* every balanced word of entries (TRUE) and exits (FALSE) of up to MaxCalls
\* calls, with the depth, the addresses and the times of each call.
Words == UNION {[1..(2 * n) -> BOOLEAN] : n \in 0..MaxCalls}
Height(w, i) ==
    Cardinality({j \in 1..(i - 1) : w[j]}) - Cardinality({j \in 1..(i - 1) : ~w[j]})
Balanced(w) ==
    /\ \A i \in 1..Len(w) : ~w[i] => Height(w, i) > 0
    /\ Height(w, Len(w) + 1) = 0
\* the entry an exit at i returns from
EntryOf(w, i) ==
    CHOOSE j \in 1..(i - 1) :
        /\ w[j]
        /\ Height(w, j) = Height(w, i) - 1
        /\ \A k \in (j + 1)..(i - 1) : ~(w[k] /\ Height(w, k) = Height(w, j))
DepthAddr(d) == CASE d = 0 -> 10 [] d = 1 -> 20 [] d = 2 -> 30 [] OTHER -> 40
CallerAddr(d) == IF d = 0 THEN 41 ELSE DepthAddr(d - 1) + 1
TraceOf(w) ==
    [i \in 1..Len(w) |->
        IF w[i]
        THEN Rec(1, Height(w, i), CallerAddr(Height(w, i)),
                 DepthAddr(Height(w, i)), i, 0)
        ELSE Rec(1, Height(w, i) - 1, CallerAddr(Height(w, i) - 1),
                 DepthAddr(Height(w, i) - 1), EntryOf(w, i), i)]
NestedTraces == {TraceOf(w) : w \in {v \in Words : Balanced(v)}}
\* what is on disk when the producer stopped early: a prefix of such a trace
ProducerTraces ==
    UNION {{SubSeq(t, 1, n) : n \in 0..Len(t)} : t \in NestedTraces}

\* Two threads: the records of a second thread, which runs one call of foo,
\* get into the file between those of the first in any order that keeps
\* each thread's own order; the time stamps are those of one clock.
RECURSIVE Interleavings(_, _)
Interleavings(a, b) ==
    IF a = <<>> THEN {b}
    ELSE IF b = <<>> THEN {a}
    ELSE {<<Head(a)>> \o r : r \in Interleavings(Tail(a), b)}
            \cup {<<Head(b)>> \o r : r \in Interleavings(a, Tail(b))}
OwnEntry(tr, i) ==
    CHOOSE j \in 1..(i - 1) :
        /\ tr[j].end_time = 0 /\ tr[j].tid = tr[i].tid /\ tr[j].depth = tr[i].depth
        /\ \A k \in (j + 1)..(i - 1) :
              ~(tr[k].end_time = 0 /\ tr[k].tid = tr[i].tid
                   /\ tr[k].depth = tr[i].depth)
Retimed(tr) ==
    [i \in 1..Len(tr) |->
        IF tr[i].end_time = 0
        THEN [tr[i] EXCEPT !.start_time = i]
        ELSE [tr[i] EXCEPT !.start_time = OwnEntry(tr, i), !.end_time = i]]
SecondThread == <<Rec(2, 0, 41, 20, 1, 0), Rec(2, 0, 41, 20, 1, 2)>>
TwoThreadTraces ==
    {Retimed(tr) :
        tr \in UNION {Interleavings(t, SecondThread) :
                        t \in {n \in NestedTraces : Len(n) < 2 * MaxCalls}}}

\* files with a whole, good header
GoodFiles(streams) ==
    {File(2, TRUE, TRUE, r, f) : r \in streams, f \in BOOLEAN}
\* files whose header is whole but wrong, and files shorter than the header
OneRec == <<Rec(1, 0, 50, 40, 1, 2)>>
BadHeaderFiles ==
    {File(2, m, v, r, FALSE) :
        m \in BOOLEAN, v \in BOOLEAN, r \in {<<>>, OneRec}} \ GoodFiles({<<>>, OneRec})
ShortFiles ==
    {EmptyFile}
        \cup {File(1, m, FALSE, <<>>, FALSE) : m \in BOOLEAN}
ReplayFiles ==
    GoodFiles(Streams \cup ProducerTraces \cup TwoThreadTraces)
        \cup BadHeaderFiles \cup ShortFiles

(***************************************************************************)
(* Output lines.                                                           *)
(***************************************************************************)
Unknown == "unknown"

\* line 329: "[%d] %d/%d: ip (%s -> %s), time (%lu)"
FlatEntryLine(cnt, rs, pname, cname) ==
    [kind |-> "entry", count |-> cnt, tid |-> rs.tid, depth |-> rs.depth,
     parent |-> pname, child |-> cname, time |-> rs.start_time, dur |-> 0]
\* line 333: "[%d] %d/%d: ip (%s <- %s), time (%lu:%lu)"
FlatExitLine(cnt, rs, pname, cname) ==
    [kind |-> "exit", count |-> cnt, tid |-> rs.tid, depth |-> rs.depth,
     parent |-> pname, child |-> cname, time |-> rs.end_time,
     dur |-> USub(rs.end_time, rs.start_time)]

GraphLine(k, b, d, t, i, n) ==
    [kind |-> k, blank |-> b, dur |-> d, tid |-> t, indent |-> i, name |-> n]
\* a leaf line that prints the time the exit record spent, not the pair
LeafLineOwnTimes(rs, next, name) ==
    GraphLine("leaf", FALSE, USub(next.end_time, next.start_time),
              rs.tid, rs.depth * 2, name)
\* line 359: "%4lu usec [%5d] | %*s%s();"
LeafLine(rs, next, name) ==
    GraphLine("leaf", FALSE, USub(next.end_time, rs.start_time),
              rs.tid, rs.depth * 2, name)
\* line 365: "%9s [%5d] | %*s%s() {"
OpenLine(rs, name) == GraphLine("open", TRUE, 0, rs.tid, rs.depth * 2, name)
\* a closing line that prints the end time, not the time spent
CloseLineEndTime(rs, name) ==
    GraphLine("close", FALSE, rs.end_time, rs.tid, rs.depth * 2, name)
\* line 374: "%4lu usec [%5d] | %*s} /* %s */"
CloseLine(rs, name) ==
    GraphLine("close", FALSE, USub(rs.end_time, rs.start_time),
              rs.tid, rs.depth * 2, name)

(***************************************************************************)
(* The stream: fread of one record, and the two renderers.                 *)
(***************************************************************************)
\* fread(&rstack, sizeof(rstack), 1, fp) == 1: a whole record is left
CanRead(f, pos) == pos < Len(f.recs)
ReadRec(f, pos) == f.recs[pos + 1]

\* the name a renderer prints for an address: static table, then dladdr
FlatName(tab, addr) ==
    IF FindSymtab(tab, addr) # NoSym THEN FindSymtab(tab, addr)
    ELSE IF DlAddr(addr) # NoSym THEN DlAddr(addr) ELSE Unknown
GraphName(tab, addr) ==
    IF FindSymtab(tab, addr) # NoSym THEN FindSymtab(tab, addr) ELSE Unknown

\* a flat renderer that reads ahead after an entry, as the graph renderer does
PrintFlatLookahead(rs, f, pos, tab, cnt) ==
    LET pname == FlatName(tab, rs.parent_ip)
        cname == FlatName(tab, rs.child_ip)
    IN  IF rs.end_time = 0 /\ ~CanRead(f, pos)
        THEN [ret |-> -1, lines |-> <<>>, pos |-> pos, count |-> cnt,
              msgs |-> <<"error reading rstack">>]
        ELSE [ret   |-> 0,
              lines |-> IF rs.end_time = 0
                        THEN <<FlatEntryLine(cnt, rs, pname, cname)>>
                        ELSE <<FlatExitLine(cnt, rs, pname, cname)>>,
              pos   |-> pos,
              count |-> cnt + 1,
              msgs  |-> <<>>]
\* a flat renderer whose counter is not static: every line is number 0
PrintFlatLocalCount(rs, f, pos, tab, cnt) ==
    LET pname == FlatName(tab, rs.parent_ip)
        cname == FlatName(tab, rs.child_ip)
    IN  [ret   |-> 0,
         lines |-> IF rs.end_time = 0
                   THEN <<FlatEntryLine(0, rs, pname, cname)>>
                   ELSE <<FlatExitLine(0, rs, pname, cname)>>,
         pos   |-> pos,
         count |-> cnt,
         msgs  |-> <<>>]
\* print_flat_rstack: one line, the static counter post-incremented
PrintFlatRstack(rs, f, pos, tab, cnt) ==
    LET pname == FlatName(tab, rs.parent_ip)
        cname == FlatName(tab, rs.child_ip)
    IN  [ret   |-> 0,
         lines |-> IF rs.end_time = 0
                   THEN <<FlatEntryLine(cnt, rs, pname, cname)>>
                   ELSE <<FlatExitLine(cnt, rs, pname, cname)>>,
         pos   |-> pos,
         count |-> cnt + 1,
         msgs  |-> <<>>]

\* a test that takes an exit only from the thread of the entry
LeafPairOfThread(rs, next) ==
    next.depth = rs.depth /\ next.end_time # 0 /\ next.tid = rs.tid
\* line 356: the record read ahead closes the call of rs
IsLeafPair(rs, next) == next.depth = rs.depth /\ next.end_time # 0
\* a renderer that forgets to put the stream back
NoRewind(saved, now) == now
\* line 370: fsetpos(fp, &pos) puts the stream back where fgetpos found it
Rewind(saved, now) == saved

\* print_graph_rstack: an entry reads one record ahead
PrintGraphRstack(rs, f, pos, tab, cnt) ==
    LET name == GraphName(tab, rs.child_ip)
    IN  IF rs.end_time = 0
        THEN IF ~CanRead(f, pos)
             THEN [ret |-> -1, lines |-> <<>>, pos |-> pos, count |-> cnt,
                   msgs |-> <<"error reading rstack">>]
             ELSE IF IsLeafPair(rs, ReadRec(f, pos))
                  THEN [ret |-> 0,
                        lines |-> <<LeafLine(rs, ReadRec(f, pos), name)>>,
                        pos |-> pos + 1, count |-> cnt, msgs |-> <<>>]
                  ELSE [ret |-> 0, lines |-> <<OpenLine(rs, name)>>,
                        pos |-> Rewind(pos, pos + 1), count |-> cnt,
                        msgs |-> <<>>]
        ELSE [ret |-> 0, lines |-> <<CloseLine(rs, name)>>, pos |-> pos,
              count |-> cnt, msgs |-> <<>>]

\* open_data_file: gm and gv stand for what the header buffer, which line 290
\* leaves as it was where the file is too short, happens to hold
HeaderMagicOk(f, gm) == IF f.hdrlen >= 1 THEN f.magic_ok ELSE gm
HeaderVersionOk(f, gv) == IF f.hdrlen >= 2 THEN f.version_ok ELSE gv
OpenDataFile(f, gm, gv) ==
    IF ~f.exists
    THEN [ok |-> FALSE, open |-> FALSE, msgs |-> <<"Can't find file">>]
    ELSE IF ~HeaderMagicOk(f, gm)
    THEN [ok |-> FALSE, open |-> FALSE, msgs |-> <<"invalid magic">>]
    ELSE IF ~HeaderVersionOk(f, gv)
    THEN [ok |-> FALSE, open |-> FALSE, msgs |-> <<"invalid version">>]
    ELSE [ok |-> TRUE, open |-> TRUE, msgs |-> <<>>]

(***************************************************************************)
(* The child's environment: build_addrlist and setup_child_environ.        *)
(***************************************************************************)
\* a char * or an environment variable: NULL / not set, or a string, which
\* is the sequence of its pieces
Unset == [set |-> FALSE, val |-> <<>>]
Val(s) == [set |-> TRUE, val |-> s]
EnvNames ==
    {"LD_PRELOAD", "LD_AUDIT", "FTRACE_FILTER", "FTRACE_NOTRACE",
     "FTRACE_FILE", "FTRACE_DEBUG"}
\* line 156: the delimiters of strtok
Delims == {",", ":"}

\* strtok(p, ",:") over the whole list: the runs of pieces between
\* delimiters, empty runs dropped; cur is the token being scanned
RECURSIVE Strtok(_, _, _)
Strtok(raw, i, cur) ==
    IF i > Len(raw) THEN (IF cur = <<>> THEN <<>> ELSE <<cur>>)
    ELSE IF raw[i] \in Delims
    THEN (IF cur = <<>> THEN <<>> ELSE <<cur>>) \o Strtok(raw, i + 1, <<>>)
    ELSE Strtok(raw, i + 1, Append(cur, raw[i]))

\* the name a token spells: one piece is that name, several pieces run together
TokenName(tok) == IF Len(tok) = 1 THEN tok[1] ELSE "(joined)"
SymAddr(tab, name) == (CHOOSE s \in tab : s.name = name).addr

\* "%#lx": the digits in base 16 after 0x, and a plain 0 for zero
HexDigit(d) ==
    <<"0", "1", "2", "3", "4", "5", "6", "7", "8", "9",
      "a", "b", "c", "d", "e", "f">>[d + 1]
RECURSIVE HexDigits(_)
HexDigits(n) ==
    IF n < 16 THEN <<HexDigit(n)>>
    ELSE Append(HexDigits(n \div 16), HexDigit(n % 16))
Hex(n) == IF n = 0 THEN <<"0">> ELSE <<"0", "x">> \o HexDigits(n)

\* a separator before every address but the first one written
SeparatorWhenNotEmpty(first, buf) == IF buf = <<>> THEN <<>> ELSE <<":">>
\* line 166: p ? "" : ":", and p is the list only for the first token
Separator(first, buf) == IF first THEN <<>> ELSE <<":">>

\* lines 159-171: the loop over the tokens; first is p != NULL
RECURSIVE AddrlistLoop(_, _, _, _, _)
AddrlistLoop(tab, toks, k, first, buf) ==
    IF k > Len(toks) THEN buf
    ELSE AddrlistLoop(tab, toks, k + 1, FALSE,
            IF FindSymname(tab, TokenName(toks[k])) # NoSym
            THEN buf \o Separator(first, buf)
                     \o Hex(SymAddr(tab, TokenName(toks[k])))
            ELSE buf)
\* build_addrlist(buf, symlist)
BuildAddrlist(tab, symlist) ==
    AddrlistLoop(tab, Strtok(symlist, 1, <<>>), 1, TRUE, <<>>)

\* lines 179-193: the library in front of what the variable held
LibDir(o) == IF o.lib_path.set THEN o.lib_path.val ELSE <<".">>
Overwritten(o, lib, old) == Val(LibDir(o) \o <<"/", lib>>)
Prepended(o, lib, old) ==
    Val(LibDir(o) \o <<"/", lib>>
          \o (IF old.set THEN <<":">> \o old.val ELSE <<>>))
\* lines 195-203: the address list is exported when the option was given
ExportList(tab, list, old) ==
    IF list.set THEN Val(BuildAddrlist(tab, list.val)) ELSE old
\* setup_child_environ, on the environment e of the process that calls it
SetupChildEnviron(o, e, tab) ==
    [e EXCEPT
       !["LD_PRELOAD"] = Prepended(o, "libmcount.so", e["LD_PRELOAD"]),
       !["LD_AUDIT"] = Prepended(o, "librtld-audit.so", e["LD_AUDIT"]),
       !["FTRACE_FILTER"] = ExportList(tab, o.filter, e["FTRACE_FILTER"]),
       !["FTRACE_NOTRACE"] = ExportList(tab, o.notrace, e["FTRACE_NOTRACE"]),
       !["FTRACE_FILE"] =
            IF o.filename \notin {FTRACE_FILE_NAME, NullName}
            THEN Val(<<o.filename>>) ELSE e["FTRACE_FILE"],
       !["FTRACE_DEBUG"] = IF o.debug THEN Val(<<"1">>) ELSE e["FTRACE_DEBUG"]]
\* lines 249-250: only the process fork returned 0 to
SetupProcess == "child"

(***************************************************************************)
(* The state of a run of the tool.                                         *)
(***************************************************************************)
VARIABLES
    pc,          \* where the tracer (parent) and the forked child are
    opts,        \* struct opts after argp_parse, and the debug flag
    exe,         \* the kind of binary opts->exename names
    fs,          \* the files on disk, by name
    fp,          \* the stream of command_replay: open, and records consumed
    rstack,      \* the record buffer of command_replay
    ret,         \* ret of command_replay
    out,         \* the lines the renderers printed
    count,       \* static int count of print_flat_rstack
    symtab,      \* the process-wide symbol table
    loads,       \* successful load_symtab calls so far
    unloads,     \* unload_symtab calls so far
    msgs,        \* the other messages printed
    syslog,      \* the process calls made: fork, exec, wait, access, unlink
    dlog,        \* one entry per record handed to a renderer
    rec_ret,     \* what command_record returned
    rep_ret,     \* what command_replay returned
    wstatus,     \* how the child ended, as waitpid reports it
    env,         \* the environment of the parent and of the child
    exit_status  \* the exit status of main

vars == <<pc, opts, exe, fs, fp, rstack, ret, out, count, symtab, loads,
          unloads, msgs, syslog, dlog, rec_ret, rep_ret, wstatus, env,
          exit_status>>

replayVars == <<fp, rstack, ret, out, count, dlog, rep_ret>>
recordVars == <<syslog, rec_ret, wstatus, env>>
symVars    == <<symtab, loads, unloads>>

P == "parent"
C == "child"
Names == {NullName, FTRACE_FILE_NAME, "ftrace.data.old", UserFile, TmpFile}
NotRun == 99

\* a file left by an earlier run
StaleFile == File(2, TRUE, TRUE, OneRec, FALSE)
\* the files of the runs in which everything else varies
FewFiles ==
    {NoFile, StaleFile, EmptyFile, File(2, TRUE, TRUE, <<>>, FALSE),
     File(2, TRUE, TRUE, <<Rec(1, 0, 50, 40, 1, 0)>>, TRUE)}

InitCommon ==
    /\ pc = [p \in {P, C} |-> IF p = P THEN "main" ELSE "none"]
    /\ fp = [open |-> FALSE, pos |-> 0]
    /\ rstack = NoRec
    /\ ret = NotRun
    /\ out = <<>>
    /\ count = 0
    /\ symtab = {}
    /\ loads = 0
    /\ unloads = 0
    /\ msgs = <<>>
    /\ syslog = <<>>
    /\ dlog = <<>>
    /\ rec_ret = NotRun
    /\ rep_ret = NotRun
    /\ wstatus = "none"
    /\ exit_status = NotRun

\* an environment with none of the six variables
NoEnv == [n \in EnvNames |-> Unset]

\* any mode, any binary, any file name, a few files
InitAny ==
    /\ InitCommon
    /\ env = [p \in {P, C} |-> NoEnv]
    /\ opts \in [mode : {"record", "replay", "live"}, flat : BOOLEAN,
                 filename : {NullName, FTRACE_FILE_NAME, UserFile},
                 lib_path : {Unset}, filter : {Unset}, notrace : {Unset},
                 debug : {FALSE}]
    /\ exe \in ExeKinds
    /\ \E f \in FewFiles, g \in {NoFile, StaleFile} :
          fs = [n \in Names |->
                  IF n = opts.filename /\ n # NullName THEN f
                  ELSE IF n = FTRACE_FILE_NAME THEN g ELSE NoFile]

\* replay of every trace file of the bounds
InitReplay ==
    /\ InitCommon
    /\ env = [p \in {P, C} |-> NoEnv]
    /\ opts \in [mode : {"replay"}, flat : BOOLEAN, filename : {UserFile},
                 lib_path : {Unset}, filter : {Unset}, notrace : {Unset},
                 debug : {FALSE}]
    /\ exe = "pg"
    /\ \E f \in ReplayFiles :
          fs = [n \in Names |-> IF n = UserFile THEN f ELSE NoFile]

Init == InitAny \/ InitReplay

\* the pieces of a -F / -N argument, and the arguments of the bounds
Pieces == {",", ":", "main", "foo", "baz"}
RawLists == UNION {[1..n -> Pieces] : n \in 0..MaxRaw}
SmallLists == {Unset, Val(<<"baz">>), Val(<<"foo">>)}
\* what LD_PRELOAD and LD_AUDIT hold when ftrace is started
OldValues == {Unset, Val(<<>>), Val(<<"a.so", ":", "b.so">>)}

\* record runs in which the options and the environment that
\* setup_child_environ reads vary
InitEnv ==
    /\ InitCommon
    /\ opts \in [mode : {"record"}, flat : {FALSE},
                 filename : {UserFile},
                 lib_path : {Unset, Val(<<"/opt/lib">>)},
                 filter : {Unset} \cup {Val(l) : l \in RawLists},
                 notrace : {Unset} \cup {Val(l) : l \in RawLists},
                 debug : {TRUE}]
    /\ opts.filter \in SmallLists \/ opts.notrace \in SmallLists
    /\ exe = "pg"
    /\ fs = [n \in Names |-> NoFile]
    /\ \E a \in OldValues, b \in {Unset, Val(<<"c.so">>)} :
          env = [p \in {P, C} |->
                   IF p = P THEN [NoEnv EXCEPT !["LD_PRELOAD"] = a,
                                               !["LD_AUDIT"] = b]
                   ELSE NoEnv]

Goto(p, label) == [pc EXCEPT ![p] = label]

(***************************************************************************)
(* main                                                                    *)
(***************************************************************************)
\* lines 133-148: the switch on opts.mode
Main ==
    /\ pc[P] = "main"
    /\ pc' = Goto(P, CASE opts.mode = "record" -> "record_rename"
                       [] opts.mode = "replay" -> "replay_open"
                       [] OTHER                -> "live_mkstemp")
    /\ UNCHANGED <<opts, exe, fs, msgs, exit_status>>
    /\ UNCHANGED <<replayVars, recordVars, symVars>>

\* a main that hands on what the command returned
CommandResult ==
    IF rep_ret # NotRun THEN rep_ret
    ELSE IF rec_ret # NotRun THEN rec_ret ELSE 0
\* line 150: return 0, whatever the command returned
MainExitStatus == 0
MainReturn ==
    /\ pc[P] = "main_return"
    /\ exit_status' = MainExitStatus
    /\ pc' = Goto(P, "exit")
    /\ UNCHANGED <<opts, exe, fs, msgs>>
    /\ UNCHANGED <<replayVars, recordVars, symVars>>

\* where command_record and command_replay return to
AfterRecord == IF opts.mode = "live" THEN "live_after_record" ELSE "main_return"
AfterReplay == IF opts.mode = "live" THEN "live_unlink" ELSE "main_return"

(***************************************************************************)
(* command_replay                                                          *)
(***************************************************************************)
TraceFile == fs[opts.filename]

\* lines 388-390 with open_data_file. fopen(NULL) is outside what fopen
\* defines: the call fails (perror) or the process dies.
ReplayOpen ==
    /\ pc[P] = "replay_open"
    /\ \E crash \in BOOLEAN, gm \in BOOLEAN, gv \in BOOLEAN :
          LET r == OpenDataFile(TraceFile, gm, gv)
          IN  IF opts.filename = NullName
              THEN /\ pc' = Goto(P, IF crash THEN "crashed" ELSE AfterReplay)
                   /\ msgs' = IF crash THEN msgs
                              ELSE Append(msgs, "perror ftrace")
                   /\ rep_ret' = IF crash THEN rep_ret ELSE -1
                   /\ UNCHANGED fp
              ELSE /\ fp' = [open |-> r.open, pos |-> 0]
                   /\ msgs' = msgs \o r.msgs
                   /\ pc' = Goto(P, IF r.ok THEN "replay_load"
                                    ELSE AfterReplay)
                   /\ rep_ret' = IF r.ok THEN rep_ret ELSE -1
    /\ UNCHANGED <<opts, exe, fs, exit_status, rstack, ret, out, count, dlog>>
    /\ UNCHANGED <<recordVars, symVars>>

\* lines 392-394
ReplayLoad ==
    /\ pc[P] = "replay_load"
    /\ LET r == LoadSymtab(exe)
       IN  /\ ret' = r.ret
           /\ IF r.ret < 0
              THEN /\ pc' = Goto(P, "replay_close")
                   /\ UNCHANGED symVars
              ELSE /\ pc' = Goto(P, "replay_fread")
                   /\ symtab' = r.tab
                   /\ loads' = loads + 1
                   /\ UNCHANGED unloads
    /\ UNCHANGED <<opts, exe, fs, msgs, exit_status>>
    /\ UNCHANGED <<fp, rstack, out, count, dlog, rep_ret, recordVars>>

\* line 396: the loop condition
ReplayFread ==
    /\ pc[P] = "replay_fread"
    /\ IF CanRead(TraceFile, fp.pos)
       THEN /\ rstack' = ReadRec(TraceFile, fp.pos)
            /\ fp' = [fp EXCEPT !.pos = fp.pos + 1]
            /\ pc' = Goto(P, "replay_dispatch")
       ELSE /\ pc' = Goto(P, "replay_unload")
            /\ UNCHANGED <<rstack, fp>>
    /\ UNCHANGED <<opts, exe, fs, msgs, exit_status>>
    /\ UNCHANGED <<ret, out, count, dlog, rep_ret, recordVars, symVars>>

\* lines 397-403: the renderer of the session, and the break on its error
Render(flat, rs, f, pos, tab, cnt) ==
    IF flat THEN PrintFlatRstack(rs, f, pos, tab, cnt)
    ELSE PrintGraphRstack(rs, f, pos, tab, cnt)
ReplayDispatch ==
    /\ pc[P] = "replay_dispatch"
    /\ LET r == Render(opts.flat, rstack, TraceFile, fp.pos, symtab, count)
       IN  /\ ret' = r.ret
           /\ out' = out \o r.lines
           /\ msgs' = msgs \o r.msgs
           /\ count' = r.count
           /\ fp' = [fp EXCEPT !.pos = r.pos]
           /\ dlog' = Append(dlog,
                  [idx |-> fp.pos, rec |-> rstack,
                   next |-> IF CanRead(TraceFile, fp.pos)
                            THEN <<ReadRec(TraceFile, fp.pos)>> ELSE <<>>,
                   frag |-> TraceFile.frag,
                   lines |-> r.lines, pos |-> r.pos, ret |-> r.ret])
           /\ pc' = Goto(P, IF r.ret # 0 THEN "replay_unload"
                            ELSE "replay_fread")
    /\ UNCHANGED <<opts, exe, fs, exit_status, rstack, rep_ret>>
    /\ UNCHANGED <<recordVars, symVars>>

\* line 406
ReplayUnload ==
    /\ pc[P] = "replay_unload"
    /\ symtab' = {}
    /\ unloads' = unloads + 1
    /\ pc' = Goto(P, "replay_close")
    /\ UNCHANGED <<opts, exe, fs, msgs, exit_status, loads>>
    /\ UNCHANGED <<replayVars, recordVars>>

\* a replay that reports success whatever the renderer returned
ReplayResultZero(r) == 0
\* lines 408-410: fclose and return ret
ReplayResult(r) == r
ReplayClose ==
    /\ pc[P] = "replay_close"
    /\ fp' = [fp EXCEPT !.open = FALSE]
    /\ rep_ret' = ReplayResult(ret)
    /\ pc' = Goto(P, AfterReplay)
    /\ UNCHANGED <<opts, exe, fs, msgs, exit_status>>
    /\ UNCHANGED <<rstack, ret, out, count, dlog, recordVars, symVars>>

(***************************************************************************)
(* command_record                                                          *)
(***************************************************************************)
\* lines 225-230: strcmp with a NULL filename is outside what strcmp
\* defines: the process dies, or the names compare unequal.
RecordRename ==
    /\ pc[P] = "record_rename"
    /\ \E crash \in BOOLEAN :
          IF opts.filename = NullName /\ crash
          THEN /\ pc' = Goto(P, "crashed")
               /\ UNCHANGED fs
          ELSE /\ pc' = Goto(P, "record_load")
               /\ fs' = IF opts.filename = FTRACE_FILE_NAME /\ TraceFile.exists
                        THEN [fs EXCEPT ![OldName(opts.filename)] = TraceFile,
                                        ![opts.filename] = NoFile]
                        ELSE fs
    /\ UNCHANGED <<opts, exe, msgs, exit_status>>
    /\ UNCHANGED <<replayVars, recordVars, symVars>>

\* lines 232-233
RecordLoad ==
    /\ pc[P] = "record_load"
    /\ LET r == LoadSymtab(exe)
       IN  IF r.ret < 0
           THEN /\ rec_ret' = -1
                /\ pc' = Goto(P, AfterRecord)
                /\ UNCHANGED symVars
           ELSE /\ symtab' = r.tab
                /\ loads' = loads + 1
                /\ pc' = Goto(P, "record_find")
                /\ UNCHANGED <<rec_ret, unloads>>
    /\ UNCHANGED <<opts, exe, fs, msgs, exit_status>>
    /\ UNCHANGED <<replayVars, syslog, wstatus, env>>

\* a record that does not look for the probe symbol
ProbeNeverMissing(tab) == FALSE
\* lines 235-241: the probe symbol must be there
ProbeMissing(tab) == FindSymname(tab, "mcount") = NoSym
RecordFind ==
    /\ pc[P] = "record_find"
    /\ IF ProbeMissing(symtab)
       THEN /\ msgs' = Append(msgs, "Can't find mcount")
            /\ rec_ret' = -1
            /\ pc' = Goto(P, AfterRecord)
       ELSE /\ pc' = Goto(P, "record_fork")
            /\ UNCHANGED <<msgs, rec_ret>>
    /\ UNCHANGED <<opts, exe, fs, exit_status>>
    /\ UNCHANGED <<replayVars, syslog, wstatus, env, symVars>>

\* lines 243-247: fork fails, or there is now a child at line 249
RecordFork ==
    /\ pc[P] = "record_fork"
    /\ syslog' = Append(syslog, "fork")
    /\ \E ok \in BOOLEAN :
          IF ok
          THEN /\ pc' = [pc EXCEPT ![P] = "record_wait", ![C] = "child_environ"]
               /\ env' = [env EXCEPT ![C] = env[P]]
               /\ UNCHANGED <<msgs, rec_ret>>
          ELSE /\ msgs' = Append(msgs, "perror fork")
               /\ rec_ret' = -1
               /\ pc' = Goto(P, AfterRecord)
               /\ UNCHANGED env
    /\ UNCHANGED <<opts, exe, fs, exit_status>>
    /\ UNCHANGED <<replayVars, wstatus, symVars>>

\* line 250: setup_child_environ, in the process fork returned 0 to. With a
\* NULL filename strcmp at line 205 is outside what it defines: the child
\* dies, or goes on with FTRACE_FILE as it was.
ChildEnviron ==
    /\ pc[C] = "child_environ"
    /\ \E crash \in BOOLEAN :
          IF opts.filename = NullName /\ crash
          THEN /\ pc' = Goto(C, "signaled")
               /\ UNCHANGED env
          ELSE /\ pc' = Goto(C, "child_exec")
               /\ env' = [env EXCEPT ![SetupProcess] =
                            SetupChildEnviron(opts, env[SetupProcess], symtab)]
    /\ UNCHANGED <<opts, exe, fs, msgs, exit_status>>
    /\ UNCHANGED <<replayVars, syslog, rec_ret, wstatus, symVars>>

\* a child that falls out of the if block when execv returns
FallThrough == "record_wait"
\* lines 256-257: execv returns only when it failed, and then abort()
AfterExecFailure == "aborted"
ChildExec ==
    /\ pc[C] = "child_exec"
    /\ syslog' = Append(syslog, "exec")
    /\ \E ok \in BOOLEAN :
          pc' = Goto(C, IF ok THEN "target" ELSE AfterExecFailure)
    /\ UNCHANGED <<opts, exe, fs, msgs, exit_status>>
    /\ UNCHANGED <<replayVars, rec_ret, wstatus, env, symVars>>

\* The traced program under the probe runtime: it writes a trace to the file
\* its environment names, or writes nothing, and exits or is killed.
TargetPath == IF env[C].FTRACE_FILE.set THEN env[C].FTRACE_FILE.val[1]
              ELSE FTRACE_FILE_NAME
TargetWrites == GoodFiles(ProducerTraces) \cup ShortFiles
TargetRun ==
    /\ pc[C] = "target"
    /\ \E w \in TargetWrites \cup {NoFile}, how \in {"exited", "signaled"} :
          /\ fs' = IF w.exists THEN [fs EXCEPT ![TargetPath] = w] ELSE fs
          /\ syslog' = IF w.exists THEN Append(syslog, "write") ELSE syslog
          /\ pc' = Goto(C, how)
    /\ UNCHANGED <<opts, exe, msgs, exit_status>>
    /\ UNCHANGED <<replayVars, rec_ret, wstatus, env, symVars>>

\* lines 260-264: waitpid returns once the child has ended
ChildEnded == pc[C] \in {"exited", "signaled", "aborted"}
RecordWait ==
    /\ pc[P] = "record_wait"
    /\ ChildEnded
    /\ syslog' = Append(syslog, "wait")
    /\ wstatus' = IF pc[C] = "exited" THEN "exited" ELSE "signaled"
    /\ msgs' = IF pc[C] = "exited" THEN msgs
               ELSE Append(msgs, "child was terminated by signal")
    /\ pc' = Goto(P, "record_access")
    /\ UNCHANGED <<opts, exe, fs, exit_status>>
    /\ UNCHANGED <<replayVars, rec_ret, env, symVars>>

\* a check of the trace file with the test the wrong way round
AccessInverted(f) == IF f.exists THEN -1 ELSE 0
\* lines 266-270: the result of record is whether the file is there
AccessResult(f) == IF f.exists THEN 0 ELSE -1
RecordAccess ==
    /\ pc[P] = "record_access"
    /\ syslog' = Append(syslog, "access")
    /\ rec_ret' = AccessResult(TraceFile)
    /\ msgs' = IF AccessResult(TraceFile) < 0
               THEN Append(msgs, "Cannot generate data file") ELSE msgs
    /\ pc' = Goto(P, AfterRecord)
    /\ UNCHANGED <<opts, exe, fs, exit_status>>
    /\ UNCHANGED <<replayVars, wstatus, env, symVars>>

(***************************************************************************)
(* command_live                                                            *)
(***************************************************************************)
\* lines 415-423
LiveMkstemp ==
    /\ pc[P] = "live_mkstemp"
    /\ \E ok \in BOOLEAN :
          IF ok
          THEN /\ fs' = [fs EXCEPT ![TmpFile] = EmptyFile]
               /\ opts' = [opts EXCEPT !.filename = TmpFile]
               /\ pc' = Goto(P, "record_rename")
               /\ UNCHANGED msgs
          ELSE /\ msgs' = Append(msgs, "perror live")
               /\ pc' = Goto(P, "main_return")
               /\ UNCHANGED <<fs, opts>>
    /\ UNCHANGED <<exe, exit_status>>
    /\ UNCHANGED <<replayVars, recordVars, symVars>>

\* a live command that replays whatever record returned
ReplayAlways(r) == TRUE
\* line 425: if (command_record(argc, argv, opts) == 0)
RunReplay(r) == r = 0
\* lines 425-426
LiveAfterRecord ==
    /\ pc[P] = "live_after_record"
    /\ pc' = Goto(P, IF RunReplay(rec_ret) THEN "replay_open" ELSE "live_unlink")
    /\ UNCHANGED <<opts, exe, fs, msgs, exit_status>>
    /\ UNCHANGED <<replayVars, recordVars, symVars>>

\* lines 428-430
LiveUnlink ==
    /\ pc[P] = "live_unlink"
    /\ fs' = [fs EXCEPT ![opts.filename] = NoFile]
    /\ syslog' = Append(syslog, "unlink")
    /\ pc' = Goto(P, "main_return")
    /\ UNCHANGED <<opts, exe, msgs, exit_status>>
    /\ UNCHANGED <<replayVars, rec_ret, wstatus, env, symVars>>

Next ==
    \/ Main
    \/ MainReturn
    \/ ReplayOpen
    \/ ReplayLoad
    \/ ReplayFread
    \/ ReplayDispatch
    \/ ReplayUnload
    \/ ReplayClose
    \/ RecordRename
    \/ RecordLoad
    \/ RecordFind
    \/ RecordFork
    \/ ChildEnviron
    \/ ChildExec
    \/ TargetRun
    \/ RecordWait
    \/ RecordAccess
    \/ LiveMkstemp
    \/ LiveAfterRecord
    \/ LiveUnlink

Spec == Init /\ [][Next]_vars

\* the record command up to the launch of the target
NextEnv ==
    \/ Main
    \/ MainReturn
    \/ RecordRename
    \/ RecordLoad
    \/ RecordFind
    \/ RecordFork
    \/ ChildEnviron
    \/ ChildExec
    \/ RecordWait
    \/ RecordAccess

SpecEnv == InitEnv /\ [][NextEnv]_vars

(***************************************************************************)
(* Graph replay: the one-record lookahead.                                 *)
(***************************************************************************)
Graph == ~opts.flat
IsEntry(r) == r.end_time = 0
\* the record after e's is the exit of a call at the same depth
FollowedByOwnExit(e) ==
    /\ IsEntry(e.rec)
    /\ e.next # <<>>
    /\ e.next[1].end_time # 0
    /\ e.next[1].depth = e.rec.depth
\* the record after e's is anything else
FollowedByOther(e) ==
    /\ IsEntry(e.rec)
    /\ e.next # <<>>
    /\ ~(e.next[1].end_time # 0 /\ e.next[1].depth = e.rec.depth)

\* C1: in graph replay an entry r directly followed by an exit n of the same
\* depth is not rewound: both are consumed, the one line printed is the
\* collapsed line with duration n.end_time - r.start_time, and n is never
\* handed to the renderer itself.
C1_LeafPairCollapsed ==
    Graph =>
      \A k \in 1..Len(dlog) :
        FollowedByOwnExit(dlog[k]) =>
          /\ dlog[k].ret = 0
          /\ dlog[k].pos = dlog[k].idx + 1
          /\ Len(dlog[k].lines) = 1
          /\ dlog[k].lines[1].kind = "leaf"
          /\ dlog[k].lines[1].dur =
                USub(dlog[k].next[1].end_time, dlog[k].rec.start_time)
          /\ Len(out) >= k
          /\ \A j \in 1..Len(dlog) : dlog[j].idx # dlog[k].idx + 1

C1_Witness ==
    /\ Graph
    /\ pc[P] = "exit"
    /\ \E k \in 1..Len(dlog) :
          /\ FollowedByOwnExit(dlog[k])
          /\ dlog[k].next[1].start_time # dlog[k].rec.start_time
          /\ dlog[k].lines[1].kind = "leaf"

\* C2: in graph replay an entry r followed by a record n that is not an exit
\* of r's depth gets only an opening line with a blank duration, the stream
\* is put back just after r, and n is the next record handed to the renderer:
\* the records dispatched advance one by one, none skipped, none twice.
C2_NonLeafRewinds ==
    Graph =>
      \A k \in 1..Len(dlog) :
        /\ k > 1 => dlog[k].idx = dlog[k - 1].pos + 1
        /\ FollowedByOther(dlog[k]) =>
             /\ dlog[k].ret = 0
             /\ Len(dlog[k].lines) = 1
             /\ dlog[k].lines[1].kind = "open"
             /\ dlog[k].lines[1].blank
             /\ dlog[k].pos = dlog[k].idx
             /\ IF k < Len(dlog)
                THEN /\ dlog[k + 1].idx = dlog[k].idx + 1
                     /\ dlog[k + 1].rec = dlog[k].next[1]
                     /\ \A j \in 1..Len(dlog) :
                           dlog[j].idx = dlog[k].idx + 1 => j = k + 1
                ELSE \/ pc[P] = "replay_fread" /\ fp.pos = dlog[k].idx
                     \/ /\ pc[P] = "replay_dispatch"
                        /\ rstack = dlog[k].next[1]
                        /\ fp.pos = dlog[k].idx + 1

C2_Witness ==
    /\ Graph
    /\ \E k \in 1..Len(dlog) :
          /\ FollowedByOther(dlog[k])
          /\ k < Len(dlog)
          /\ dlog[k + 1].rec = dlog[k].next[1]
          /\ dlog[k].lines[1].kind = "open"

(***************************************************************************)
(* Graph replay of properly nested traces.                                 *)
(***************************************************************************)
\* replay has run its loop on a whole file with a good header
ReplayRan ==
    /\ rep_ret # NotRun
    /\ TraceFile.exists
    /\ TraceFile.hdrlen = 2 /\ TraceFile.magic_ok /\ TraceFile.version_ok
    /\ exe # "unreadable"
TraceRecs == TraceFile.recs

\* The calls still open after the first i records, as the indices of their
\* entries, when those records are the entries and exits of properly nested
\* calls of one thread: an entry is one level below the open calls, an exit
\* closes the innermost open call and carries its address and start time.
RECURSIVE OpenCalls(_, _)
OpenCalls(recs, i) ==
    IF i = 0 THEN [ok |-> TRUE, st |-> <<>>]
    ELSE LET p == OpenCalls(recs, i - 1)
             r == recs[i]
         IN  IF ~p.ok \/ r.tid # recs[1].tid THEN [ok |-> FALSE, st |-> <<>>]
             ELSE IF r.end_time = 0
             THEN [ok |-> r.depth = Len(p.st), st |-> Append(p.st, i)]
             ELSE IF p.st = <<>> THEN [ok |-> FALSE, st |-> <<>>]
             ELSE [ok |-> /\ r.depth = recs[Last(p.st)].depth
                          /\ r.child_ip = recs[Last(p.st)].child_ip
                          /\ r.start_time = recs[Last(p.st)].start_time
                          /\ r.end_time >= r.start_time,
                   st |-> SubSeq(p.st, 1, Len(p.st) - 1)]
ProperlyNested(recs) ==
    OpenCalls(recs, Len(recs)).ok /\ OpenCalls(recs, Len(recs)).st = <<>>
\* the entry the exit at i closes
Opening(recs, i) == Last(OpenCalls(recs, i - 1).st)
\* a leaf call: the entry at i and, right after it, its own exit
LeafAt(recs, i) ==
    /\ recs[i].end_time = 0
    /\ i < Len(recs)
    /\ recs[i + 1].end_time # 0
    /\ Opening(recs, i + 1) = i
Leaves(recs) == {i \in 1..Len(recs) : LeafAt(recs, i)}

\* what the call graph of a properly nested trace is, line by line
NameIn(tab, addr) ==
    IF \E s \in tab : s.addr = addr
    THEN (CHOOSE s \in tab : s.addr = addr).name ELSE Unknown
RECURSIVE CallGraph(_, _, _)
CallGraph(recs, i, tab) ==
    IF i = 0 THEN <<>>
    ELSE LET before == CallGraph(recs, i - 1, tab)
             r == recs[i]
             name == NameIn(tab, r.child_ip)
         IN  IF LeafAt(recs, i)
             THEN Append(before,
                    GraphLine("leaf", FALSE, recs[i + 1].end_time - r.start_time,
                              r.tid, 2 * r.depth, name))
             ELSE IF r.end_time = 0
             THEN Append(before, GraphLine("open", TRUE, 0, r.tid, 2 * r.depth, name))
             ELSE IF Opening(recs, i) = i - 1 THEN before
             ELSE Append(before,
                    GraphLine("close", FALSE, r.end_time - r.start_time, r.tid,
                              2 * recs[Opening(recs, i)].depth, name))

\* enter main d0, enter foo d1, enter bar d2, exit bar, exit foo, exit main
SixRecords ==
    <<Rec(1, 0, 41, 10, 1, 0), Rec(1, 1, 11, 20, 2, 0), Rec(1, 2, 21, 30, 3, 0),
      Rec(1, 2, 21, 30, 3, 4), Rec(1, 1, 11, 20, 2, 5), Rec(1, 0, 41, 10, 1, 6)>>
FiveLines ==
    <<GraphLine("open", TRUE, 0, 1, 0, "main"),
      GraphLine("open", TRUE, 0, 1, 2, "foo"),
      GraphLine("leaf", FALSE, 4 - 3, 1, 4, "bar"),
      GraphLine("close", FALSE, 5 - 2, 1, 2, "foo"),
      GraphLine("close", FALSE, 6 - 1, 1, 0, "main")>>

\* C3: graph replay of a properly nested single-thread trace of N records
\* with L leaf calls prints N - L lines in stream order: an opening line per
\* non-leaf entry, one collapsed line per leaf pair, a closing line per
\* non-leaf exit at the indentation of its opening line with the duration
\* end_time - start_time; the six records main, foo, bar give the five lines.
C3_NestedTraceLines ==
    (Graph /\ ReplayRan /\ ProperlyNested(TraceRecs)) =>
        /\ rep_ret = 0
        /\ Len(out) = Len(TraceRecs) - Cardinality(Leaves(TraceRecs))
        /\ out = CallGraph(TraceRecs, Len(TraceRecs), ExeSymbols(exe))
        /\ TraceRecs = SixRecords => out = FiveLines

C3_Witness ==
    /\ Graph /\ ReplayRan
    /\ TraceRecs = SixRecords
    /\ out = FiveLines
    /\ pc[P] = "exit"

\* C4: in graph replay an entry that is the last record, with nothing after
\* it, fails the lookahead read: the renderer returns non-zero and prints no
\* line for it, the loop ends at once and command_replay returns that result.
C4_LoneEntryFatal ==
    Graph =>
      \A k \in 1..Len(dlog) :
        (IsEntry(dlog[k].rec) /\ dlog[k].next = <<>> /\ ~dlog[k].frag) =>
          /\ dlog[k].ret # 0
          /\ dlog[k].lines = <<>>
          /\ k = Len(dlog)
          /\ pc[P] \notin {"replay_fread", "replay_dispatch"}
          /\ ret = dlog[k].ret
          /\ pc[P] \notin {"replay_unload", "replay_close"} => rep_ret = dlog[k].ret
          /\ Len(out) < Len(dlog)

C4_Witness ==
    /\ Graph
    /\ pc[P] = "exit"
    /\ rep_ret = -1
    /\ dlog # <<>>
    /\ IsEntry(Last(dlog).rec) /\ Last(dlog).next = <<>> /\ ~Last(dlog).frag
    /\ Len(dlog) > 1

(***************************************************************************)
(* Truncated files, flat replay.                                           *)
(***************************************************************************)
\* record i has its line: its own, or the collapsed line of the pair it ends
Rendered(i) ==
    \E k \in 1..Len(dlog) :
        /\ dlog[k].lines # <<>>
        /\ \/ dlog[k].idx = i
           \/ dlog[k].idx = i - 1 /\ dlog[k].pos = i
NoStreamError == \A m \in 1..Len(msgs) : msgs[m] # "error reading rstack"
Truncated == ReplayRan /\ TraceFile.frag
EndsWithEntry == TraceRecs # <<>> /\ IsEntry(Last(TraceRecs))

\* C5 as claimed: replay (flat or graph) of a file that ends in an incomplete
\* record renders every complete record and returns success, whatever the last
\* complete record is, an entry included.
C5_TruncationAlwaysClean ==
    Truncated =>
        /\ rep_ret = 0
        /\ NoStreamError
        /\ \A i \in 1..Len(TraceRecs) : Rendered(i)

\* C5 as amended: replay of a file that ends in an incomplete record renders
\* every complete record and returns success in flat replay, and in graph
\* replay unless the last complete record is an entry; then that entry's
\* lookahead read fails, it gets no line, the records before it have theirs
\* and command_replay returns the renderer's non-zero result.
C5_TruncationCleanUnlessGraphEntry ==
    Truncated =>
        IF Graph /\ EndsWithEntry
        THEN /\ rep_ret # 0
             /\ ~NoStreamError
             /\ \A i \in 1..(Len(TraceRecs) - 1) : Rendered(i)
             /\ ~Rendered(Len(TraceRecs))
        ELSE /\ rep_ret = 0
             /\ NoStreamError
             /\ \A i \in 1..Len(TraceRecs) : Rendered(i)

C5_Witness ==
    /\ Truncated
    /\ pc[P] = "exit"
    /\ EndsWithEntry
    /\ Len(TraceRecs) > 1
    /\ opts.flat
    /\ rep_ret = 0
    /\ Rendered(Len(TraceRecs))

\* C6: flat replay of N complete records prints N lines, one per record in
\* stream order, numbered 0 .. N-1; a record with end_time = 0 gives an entry
\* line with start_time, any other an exit line with end_time and the duration
\* end_time - start_time. Flat replay never reads ahead and never fails.
C6_FlatOneLinePerRecord ==
    opts.flat =>
        /\ \A k \in 1..Len(dlog) :
              /\ dlog[k].idx = k
              /\ dlog[k].pos = k
              /\ dlog[k].ret = 0
              /\ Len(out) = Len(dlog)
        /\ ReplayRan =>
              /\ rep_ret = 0
              /\ Len(out) = Len(TraceRecs)
              /\ \A i \in 1..Len(TraceRecs) :
                    /\ out[i].count = i - 1
                    /\ out[i].tid = TraceRecs[i].tid
                    /\ out[i].depth = TraceRecs[i].depth
                    /\ IF TraceRecs[i].end_time = 0
                       THEN /\ out[i].kind = "entry"
                            /\ out[i].time = TraceRecs[i].start_time
                       ELSE /\ out[i].kind = "exit"
                            /\ out[i].time = TraceRecs[i].end_time
                            /\ out[i].dur = USub(TraceRecs[i].end_time,
                                                 TraceRecs[i].start_time)

C6_Witness ==
    /\ opts.flat
    /\ ReplayRan
    /\ pc[P] = "exit"
    /\ Len(TraceRecs) = 2 * MaxCalls
    /\ Len(out) = 2 * MaxCalls
    /\ out[Len(out)].count = Len(out) - 1

(***************************************************************************)
(* Record: the probe check, the fork, the wait and the file check.         *)
(***************************************************************************)
Calls(what) == {i \in 1..Len(syslog) : syslog[i] = what}
RecordReturned ==
    \/ opts.mode = "record" /\ pc[P] \in {"main_return", "exit"}
    \/ pc[P] = "live_after_record"
ProbeCheckFails ==
    LoadSymtab(exe).ret < 0 \/ FindSymname(ExeSymbols(exe), "mcount") = NoSym

\* C7: when the symbol table does not load or holds no mcount, record returns
\* failure and, in that run, nothing is forked, exec'ed, waited for or checked
\* with access: the probe check comes before the fork.
C7_ProbeCheckBeforeFork ==
    ProbeCheckFails =>
        /\ pc[C] = "none"
        /\ Calls("fork") = {} /\ Calls("exec") = {}
        /\ Calls("wait") = {} /\ Calls("access") = {}
        /\ pc[P] \notin {"record_fork", "record_wait", "record_access"}
        /\ rec_ret \in {NotRun, -1}
        /\ RecordReturned => rec_ret = -1

C7_Witness ==
    /\ exe = "nopg"
    /\ opts.mode = "record"
    /\ RecordReturned
    /\ rec_ret = -1
    /\ pc[P] = "exit"
    /\ syslog = <<>>

\* C8: the parent checks the trace file only after the wait has returned,
\* and that check alone decides the result of record: failure when the file
\* is not there, success when it is, also when a signal ended the child (the
\* signal is reported and is not fatal).
C8_ResultIsFileCheck ==
    /\ \A a \in Calls("access") : \E w \in Calls("wait") : w < a
    /\ Calls("wait") # {} => ChildEnded
    /\ pc[P] = "record_access" => Calls("wait") # {} /\ rec_ret = NotRun
    /\ (syslog # <<>> /\ Last(syslog) = "access") =>
          /\ TraceFile.exists => rec_ret = 0
          /\ ~TraceFile.exists => rec_ret = -1
          /\ wstatus = "signaled" =>
                \E m \in 1..Len(msgs) : msgs[m] = "child was terminated by signal"

C8_Witness ==
    /\ syslog # <<>> /\ Last(syslog) = "access"
    /\ wstatus = "signaled"
    /\ TraceFile.exists
    /\ rec_ret = 0
    /\ opts.mode = "record"

\* C9: the forked child never runs the parent's continuation: it prepares its
\* environment and execs, and when exec fails it aborts, so the wait, the file
\* check, the return of record, the replay and the unlink are the parent's.
ChildPlaces ==
    {"none", "child_environ", "child_exec", "target", "exited", "signaled",
     "aborted"}
C9_ChildNeverContinues ==
    /\ pc[C] \in ChildPlaces
    /\ Cardinality(Calls("wait")) <= 1
    /\ Cardinality(Calls("access")) <= 1
    /\ Cardinality(Calls("unlink")) <= 1
    /\ (Calls("exec") # {} /\ pc[C] \notin {"target", "exited", "signaled"})
          => pc[C] = "aborted"

C9_Witness ==
    /\ pc[C] = "aborted"
    /\ pc[P] = "exit"
    /\ opts.mode = "live"
    /\ Calls("unlink") # {}

(***************************************************************************)
(* Opening the trace file.                                                 *)
(***************************************************************************)
HeaderAsExpected(f) ==
    f.exists /\ f.hdrlen = 2 /\ f.magic_ok /\ f.version_ok
Said(m) == \E i \in 1..Len(msgs) : msgs[i] = m
OpenTried ==
    /\ opts.filename # NullName
    /\ pc[P] \in {"replay_load", "replay_fread", "replay_dispatch",
                  "replay_unload", "replay_close"}
          \/ (rep_ret # NotRun /\ TraceFile.exists)

\* C10: opening a trace file gives a reader only when the header holds
\* exactly the expected magic and version; a missing file gets the not-found
\* message, a wrong magic the magic error (before the version is looked at), a
\* wrong version the version error, a rejected file is closed and none of its
\* records is rendered, and a file shorter than the header is rejected too.
C10_OnlyExpectedHeaderOpens ==
    /\ fp.open => HeaderAsExpected(TraceFile)
    /\ OpenTried =>
          /\ ~HeaderAsExpected(TraceFile) => ~fp.open /\ dlog = <<>> /\ out = <<>>
          /\ (TraceFile.hdrlen = 2 /\ ~TraceFile.magic_ok) =>
                Said("invalid magic") /\ ~Said("invalid version")
          /\ (TraceFile.hdrlen = 2 /\ TraceFile.magic_ok /\ ~TraceFile.version_ok) =>
                Said("invalid version")
    /\ (rep_ret # NotRun /\ opts.mode = "replay" /\ opts.filename # NullName
          /\ ~TraceFile.exists) => Said("Can't find file")

(***************************************************************************)
(* The child's environment.                                                *)
(***************************************************************************)
\* setup_child_environ has returned in the child
SetupDone ==
    \/ pc[C] \in {"child_exec", "target", "aborted", "exited"}
    \/ pc[C] = "signaled" /\ Calls("exec") # {}
\* the tokens of a list, by where they start: a token starts at a piece that
\* is no delimiter and follows a delimiter or nothing
TokenStarts(raw) ==
    {i \in 1..Len(raw) :
        raw[i] \notin Delims /\ (i = 1 \/ raw[i - 1] \in Delims)}
TokenAt(raw, i) ==
    LET j == CHOOSE n \in i..Len(raw) :
                 /\ \A m \in i..n : raw[m] \notin Delims
                 /\ n = Len(raw) \/ raw[n + 1] \in Delims
    IN  SubSeq(raw, i, j)
Resolves(tab, tok) == Len(tok) = 1 /\ \E s \in tab : s.name = tok[1]
AddrOf(tab, tok) == (CHOOSE s \in tab : s.name = tok[1]).addr
\* what the token that starts at i adds to the list
Contribution(tab, raw, i) ==
    IF i \in TokenStarts(raw) /\ Resolves(tab, TokenAt(raw, i))
    THEN (IF \A j \in TokenStarts(raw) : i <= j THEN <<>> ELSE <<":">>)
            \o Hex(AddrOf(tab, TokenAt(raw, i)))
    ELSE <<>>
RECURSIVE AddressesFrom(_, _, _)
AddressesFrom(tab, raw, i) ==
    IF i > Len(raw) THEN <<>>
    ELSE Contribution(tab, raw, i) \o AddressesFrom(tab, raw, i + 1)
ListOptions == {<<"filter", "FTRACE_FILTER">>, <<"notrace", "FTRACE_NOTRACE">>}
FooOnly == {Sym("foo", 4096, 16)}

\* C11: the address list is the hexadecimal addresses of the names that
\* resolve, in the order of the input, a name that does not resolve adding
\* nothing; a ':' is written before an address exactly when its name is not
\* the first token of the input, so the list never ends with a separator;
\* with only foo resolving (at 0x1000), foo,bar gives 0x1000 and bar,foo
\* gives :0x1000.
C11_AddrlistInInputOrder ==
    /\ BuildAddrlist(FooOnly, <<"foo", ",", "bar">>)
          = <<"0", "x", "1", "0", "0", "0">>
    /\ BuildAddrlist(FooOnly, <<"bar", ",", "foo">>)
          = <<":", "0", "x", "1", "0", "0", "0">>
    /\ SetupDone =>
          \A o \in ListOptions :
             opts[o[1]].set =>
                /\ env[C][o[2]].val = AddressesFrom(symtab, opts[o[1]].val, 1)
                /\ env[C][o[2]].val # <<>> => Last(env[C][o[2]].val) # ":"
C11_Witness ==
    /\ SetupDone
    /\ opts.filter = Val(<<"baz", ",", "foo">>)
    /\ env[C]["FTRACE_FILTER"] = Val(<<":", "0", "x", "1", "4">>)
    /\ opts.notrace = Val(<<"foo">>)
    /\ env[C]["FTRACE_NOTRACE"] = Val(<<"0", "x", "1", "4">>)

\* C12: FTRACE_FILTER and FTRACE_NOTRACE are set in the child's environment
\* only if the translated address list is not empty; when no name of the
\* list resolves the variable is left unset, not set to the empty string.
C12_ListSetOnlyIfNonEmpty ==
    SetupDone =>
       \A o \in ListOptions :
          /\ env[C][o[2]].set => env[C][o[2]].val # <<>>
          /\ (opts[o[1]].set /\ BuildAddrlist(symtab, opts[o[1]].val) = <<>>)
                => ~env[C][o[2]].set

LibraryPath(lib) ==
    (IF opts.lib_path.set THEN opts.lib_path.val ELSE <<".">>) \o <<"/", lib>>
\* the value a variable gets: the library first, then all of the old value
AfterPrepend(lib, old) ==
    IF old.set THEN Val(LibraryPath(lib) \o <<":">> \o old.val)
    ELSE Val(LibraryPath(lib))

\* C13: setup_child_environ prepends and never overwrites: LD_PRELOAD and
\* LD_AUDIT become the path of the interposition library, followed by ':' and
\* the whole previous value when there was one; only the environment of the
\* forked child is changed, the parent's is left as it was by record.
C13_PrependsInChildOnly ==
    /\ [](SetupDone =>
            /\ env[C]["LD_PRELOAD"]
                  = AfterPrepend("libmcount.so", env[P]["LD_PRELOAD"])
            /\ env[C]["LD_AUDIT"]
                  = AfterPrepend("librtld-audit.so", env[P]["LD_AUDIT"]))
    /\ [][env'[P] = env[P]]_vars
C13_Witness ==
    /\ pc[P] = "main_return"
    /\ rec_ret # NotRun
    /\ env[P]["LD_PRELOAD"] = Val(<<"a.so", ":", "b.so">>)
    /\ env[P]["LD_AUDIT"] = Val(<<"c.so">>)
    /\ env[C]["LD_PRELOAD"]
          = Val(<<"/opt/lib", "/", "libmcount.so", ":", "a.so", ":", "b.so">>)
    /\ env[C]["LD_AUDIT"] = Val(<<"/opt/lib", "/", "librtld-audit.so", ":", "c.so">>)

(***************************************************************************)
(* The exit status of the tool.                                            *)
(***************************************************************************)
FailureMessages ==
    {"Can't find mcount", "perror fork", "Cannot generate data file",
     "Can't find file", "invalid magic", "invalid version",
     "error reading rstack"}
\* one of the failures has happened inside the command
InnerFailure ==
    \/ \E m \in FailureMessages : Said(m)
    \/ exe = "unreadable" /\ (rec_ret = -1 \/ ret = -1)
CommandFailed == rec_ret = -1 \/ rep_ret \notin {NotRun, 0}
MainDone == pc[P] \in {"main_return", "exit"}

\* C14: once a mode is dispatched the parent always exits with status 0,
\* whatever happened inside: a symbol load failure, a missing probe symbol, a
\* fork failure, a missing trace file, a rejected header or a fatal stream
\* error gives a message and a failed command result, and main still
\* returns 0.
C14_AlwaysExitsZero ==
    /\ exit_status \in {NotRun, 0}
    /\ pc[P] = "exit" => exit_status = 0
    /\ opts.filename # NullName => pc[P] # "crashed"
    /\ (InnerFailure /\ MainDone) => CommandFailed
C14_Witness ==
    /\ pc[P] = "exit"
    /\ exit_status = 0
    /\ Said("error reading rstack")
    /\ rep_ret = -1

(***************************************************************************)
(* The life of the symbol table.                                           *)
(***************************************************************************)
\* C15: in record, replay and live every successful load of the symbol table
\* is followed by exactly one unload before the command returns, and the
\* table is not loaded again before it is unloaded, so at most one table is
\* live at any time, on every path.
C15_LoadUnloadPaired ==
    /\ loads - unloads \in {0, 1}
    /\ (MainDone \/ pc[P] = "live_after_record") => loads = unloads

(***************************************************************************)
(* The trace file that record reports.                                     *)
(***************************************************************************)
\* the child has written the trace file in this run
ChildWrote == Calls("write") # {}
ReplayStarted ==
    pc[P] \in {"replay_load", "replay_fread", "replay_dispatch",
               "replay_unload", "replay_close"} \/ rep_ret # NotRun

\* C16: record succeeds only when the child produced the trace file in this
\* run: when the child ends without writing it record reports the missing
\* trace file, with the default file name, with a file name of the user's
\* where a file of an earlier run may exist, and in live mode where the
\* temporary file exists before the child starts; so live never replays a
\* file the child did not write.
C16_SuccessMeansChildWrote ==
    /\ (RecordReturned /\ ~ChildWrote) => rec_ret = -1
    /\ (RecordReturned /\ Calls("wait") # {} /\ ~ChildWrote)
          => Said("Cannot generate data file")
    /\ (opts.mode = "live" /\ ReplayStarted) => ChildWrote

(***************************************************************************)
(* Graph replay of the records of two threads.                             *)
(***************************************************************************)
OfThread(recs, t) == SelectSeq(recs, LAMBDA r : r.tid = t)
\* each thread's own records are those of properly nested calls
ThreadsNested(recs) == \A t \in {1, 2} : ProperlyNested(OfThread(recs, t))
TwoThreads(recs) == \A t \in {1, 2} : OfThread(recs, t) # <<>>
Collapsed(e) == e.lines # <<>> /\ e.lines[1].kind = "leaf"
SameCall(e) ==
    /\ e.rec.tid = e.next[1].tid
    /\ e.rec.child_ip = e.next[1].child_ip

\* C17: every collapsed line of graph replay stands for one leaf call: the
\* entry and the exit consumed together have the same thread id and the same
\* child address, in every trace in which each thread's own records are
\* properly ordered and nested, those where the records of two threads
\* interleave included.
C17_CollapsedPairIsOneCall ==
    (Graph /\ fp.open /\ ThreadsNested(TraceRecs)) =>
       \A k \in 1..Len(dlog) : Collapsed(dlog[k]) => SameCall(dlog[k])

\* C17, amended: the renderer compares only the depth, so a collapsed line
\* stands for one call when the exit that follows the entry is of the same
\* thread; an exit of another thread at the same depth is collapsed with
\* the entry all the same, into a line with the entry's thread and name.
C17_CollapsedPairOfOneThread ==
    (Graph /\ fp.open /\ ThreadsNested(TraceRecs)) =>
       \A k \in 1..Len(dlog) :
          LET e == dlog[k]
          IN  /\ (Collapsed(e) /\ e.rec.tid = e.next[1].tid) =>
                    /\ SameCall(e)
                    /\ e.next[1].start_time = e.rec.start_time
              /\ (IsEntry(e.rec) /\ e.next # <<>> /\ ~IsEntry(e.next[1])
                    /\ e.next[1].depth = e.rec.depth) =>
                    /\ Collapsed(e)
                    /\ e.lines[1].tid = e.rec.tid
                    /\ e.lines[1].name = GraphName(ExeSymbols(exe), e.rec.child_ip)
C17_Witness ==
    /\ Graph /\ fp.open
    /\ ThreadsNested(TraceRecs) /\ TwoThreads(TraceRecs)
    /\ \E k \in 1..Len(dlog) :
          Collapsed(dlog[k]) /\ dlog[k].rec.tid # dlog[k].next[1].tid
    /\ \E k \in 1..Len(dlog) :
          Collapsed(dlog[k]) /\ dlog[k].rec.tid = dlog[k].next[1].tid

(***************************************************************************)
(* The names the two renderers print.                                      *)
(***************************************************************************)
\* the static table first, then the dynamic loader, "unknown" when both miss
TwoStepName(tab, addr) ==
    IF FindSymtab(tab, addr) # NoSym THEN FindSymtab(tab, addr)
    ELSE IF DlAddr(addr) # NoSym THEN DlAddr(addr)
    ELSE Unknown

\* C18: both renderers resolve a name by the same two steps, the static
\* symbol table and on a miss the dynamic loader's lookup of the same
\* address, and print "unknown" only when both fail; for the same record and
\* the same tables the graph renderer prints the child name the flat
\* renderer prints.
C18_SameNameInBothRenderers ==
    \A k \in 1..Len(dlog) :
       \A n \in 1..Len(dlog[k].lines) :
          LET name == TwoStepName(ExeSymbols(exe), dlog[k].rec.child_ip)
          IN  IF Graph THEN dlog[k].lines[n].name = name
              ELSE dlog[k].lines[n].child = name

(***************************************************************************)
(* The replay loop comes to an end.                                        *)
(***************************************************************************)
\* the loop of command_replay has been left
LoopLeft == pc[P] \in {"replay_unload", "replay_close"} /\ exe # "unreadable"
\* command_replay has returned after it had opened the file and loaded
ReplayedAndReturned == rep_ret # NotRun /\ ret # NotRun /\ exe # "unreadable"

\* C19: replay of a finite file terminates: every turn of the loop moves the
\* stream on by at least one whole record after any rewind (one for an exit
\* or an entry that is no leaf, two for a collapsed pair), the stream is never
\* put back before the record being processed, the loop ends at the end of
\* the stream or at the first error of a renderer, and then the symbol table
\* is unloaded and the file closed.
C19_ReplayLoopAdvances ==
    /\ \A k \in 1..Len(dlog) :
          LET e == dlog[k]
          IN  /\ e.pos >= e.idx
              /\ e.pos - (e.idx - 1) = IF Collapsed(e) THEN 2 ELSE 1
              /\ e.idx <= Len(TraceRecs) \/ ~TraceFile.exists
              /\ k < Len(dlog) => e.ret = 0 /\ dlog[k + 1].idx = e.pos + 1
    /\ LoopLeft =>
          \/ fp.pos = Len(TraceRecs)
          \/ dlog # <<>> /\ Last(dlog).ret # 0
    /\ rep_ret # NotRun => ~fp.open
    /\ ReplayedAndReturned => symtab = {} /\ unloads = 1
C19_Witness ==
    /\ Graph
    /\ pc[P] = "exit"
    /\ ReplayedAndReturned
    /\ Len(dlog) = 3
    /\ Collapsed(dlog[2])
    /\ dlog[1].pos = 1 /\ dlog[2].pos = 3 /\ dlog[3].pos = 4
    /\ fp.pos = 4 /\ ~fp.open

(***************************************************************************)
(* Live mode.                                                              *)
(***************************************************************************)
\* mkstemp gave the temporary file
TempCreated == opts.mode = "live" /\ opts.filename = TmpFile
Unlinks == Cardinality(Calls("unlink"))

\* C20: in live mode, once the temporary file is created, replay runs only if
\* record returned success and only after record has returned; the temporary
\* file is removed exactly once before the command returns, on every path;
\* and if the temporary file cannot be created neither record nor replay
\* runs.
C20_LiveOrderAndCleanup ==
    opts.mode = "live" =>
       /\ ReplayStarted => TempCreated /\ rec_ret = 0 /\ pc[P] # "record_access"
       /\ Unlinks <= 1
       /\ (TempCreated /\ Unlinks = 0) => fs[TmpFile].exists /\ ~MainDone
       /\ (TempCreated /\ MainDone) => Unlinks = 1 /\ ~fs[TmpFile].exists
       /\ (pc[P] # "main" /\ pc[P] # "live_mkstemp" /\ ~TempCreated) =>
             /\ MainDone /\ Said("perror live")
             /\ rec_ret = NotRun /\ rep_ret = NotRun
             /\ syslog = <<>> /\ loads = 0 /\ dlog = <<>>
C20_Witness ==
    /\ TempCreated
    /\ pc[P] = "exit"
    /\ rec_ret = 0 /\ rep_ret = 0
    /\ dlog # <<>>
    /\ Unlinks = 1 /\ Last(syslog) = "unlink"

====
